---- MODULE Spec2Model ----
(***************************************************************************)
(* Number-pool allocation and provisioning engine of aio-backend.          *)
(*                                                                         *)
(* The database is modelled as its committed rows plus the row locks held  *)
(* by open transactions (PostgreSQL, READ COMMITTED).  Every HTTP request  *)
(* is a worker that walks through its handler one database statement (one  *)
(* await) at a time; the writes of an open transaction become visible at   *)
(* its COMMIT and are dropped at its ROLLBACK.                             *)
(***************************************************************************)
EXTENDS Integers, FiniteSets, Sequences, TLC

\* ------------------------------------------------------------------ bounds
MaxReq      == 2    \* requests (workers) in one run
NumPool     == 2    \* distinct pool numbers an administrator may add
InitTenants == 1    \* tenants (with their agent) that exist before the run
MaxFaults   == 1    \* database statements that fail in one run

\* --------------------------------------------------------------- constants
PLACEHOLDER == "+905550001122"
NULL        == "NULL"      \* SQL NULL of a text column
NOID        == 0           \* SQL NULL of an id column

AllDids     == <<"+908501111111", "+908501111112", "+908501111113", "+908501111114">>
PoolNumbers == {AllDids[i] : i \in 1..NumPool}
Reqs        == 1..MaxReq
MaxTenants  == InitTenants + MaxReq
TenantIds   == 1..MaxTenants
Refs        == {"ORDER-1", "ORDER-2"}
Inventory   == <<"+15005550001", "+15005550002">>   \* numbers the provider can sell

VARIABLES
    vn,          \* verimor_numbers: committed rows, keyed by did_number
    vnLock,      \* row lock on a verimor_numbers row: holder request or 0
    tenants,     \* tenants: committed rows
    agents,      \* agents: committed rows
    agLock,      \* row lock on an agents row: holder request or 0
    req,         \* per request: handler, position and locals
    env,         \* build: the handler build that runs (src/index.ts or the compiled one);
                 \* client: TWILIO_ACCOUNT_SID and TWILIO_AUTH_TOKEN are set;
                 \* sold: numbers bought from the provider so far
    faults       \* database statements that have failed so far

vars == <<vn, vnLock, tenants, agents, agLock, req, env, faults>>

\* ------------------------------------------------------------------- rows
NoNumber  == [status |-> "absent", tenant_id |-> NOID, agent_id |-> NOID, assigned_at |-> NULL]
Available == [status |-> "available", tenant_id |-> NOID, agent_id |-> NOID, assigned_at |-> NULL]
Blocked   == [status |-> "blocked", tenant_id |-> NOID, agent_id |-> NOID, assigned_at |-> NULL]

NoTenant  == [exists |-> FALSE, paynet_ref_code |-> NULL]
NoAgent   == [exists |-> FALSE, tenant_id |-> NOID, verimor_did |-> NULL,
              twilio_phone_number |-> NULL, twilio_sid |-> NULL]
NewAgent_Missing(t) == [exists |-> FALSE, tenant_id |-> NOID, verimor_did |-> NULL,
                        twilio_phone_number |-> NULL, twilio_sid |-> NULL]
NewAgent(t) == [exists |-> TRUE, tenant_id |-> t, verimor_did |-> NULL,
                twilio_phone_number |-> NULL, twilio_sid |-> NULL]

Idle == [op |-> "idle", pc |-> "idle", arg |-> NULL, tenantId |-> NOID, agentId |-> NOID,
         numberId |-> NULL, phoneNumber |-> NULL, assignmentType |-> "none", out |-> "none",
         stages |-> <<>>, tx |-> <<>>]

\* ------------------------------------------------------------ transactions
\* A transaction that is left open when its function returns: its row locks stay.
Unlock_KeepsLocks(lock, p) == lock

\* ROLLBACK (and COMMIT) give up every row lock of the transaction.
Unlock(lock, p) == [k \in DOMAIN lock |-> IF lock[k] = p THEN 0 ELSE lock[k]]

\* A statement may fail (connection lost, constraint, timeout): at most
\* MaxFaults times in one run.
CanFail == faults < MaxFaults

Started(p) == req[p].op # "idle"
Done(p)    == req[p].pc = "done"

\* The agent row of a tenant: SELECT id FROM agents WHERE tenant_id = $1 LIMIT 1
AgentsOf(t) == {a \in TenantIds : agents[a].exists /\ agents[a].tenant_id = t}

\* Ids come from gen_random_uuid(): an INSERT takes an id no row and no open
\* transaction uses (the least one, ids being interchangeable).
InUse(t) == tenants[t].exists \/ agents[t].exists \/ \E q \in Reqs : req[q].tenantId = t
FreshId  == CHOOSE t \in TenantIds : ~InUse(t) /\ \A u \in 1..(t-1) : InUse(u)

\* Requests are interchangeable: they arrive in the order of their index.
CanStart(p) == req[p].op = "idle" /\ \A q \in 1..(p-1) : Started(q)

Finish(r, out) == [r EXCEPT !.pc = "done", !.out = out]

\* What the request did with its database client so far: pool.connect(), the
\* transaction statements it sent, client.release().
Did(r, events) == [r EXCEPT !.tx = @ \o events]

\* A catch block that ends the transaction with COMMIT: the rows the transaction
\* has written so far reach the tables.
Rollback_KeepsWrites(p) ==
    /\ vnLock' = Unlock(vnLock, p)
    /\ agLock' = Unlock(agLock, p)
    /\ vn' = [d \in PoolNumbers |->
                IF vnLock[d] # p THEN vn[d]
                ELSE IF req[p].pc \in {"a_commit", "s_commit"}
                     THEN [status |-> "assigned", tenant_id |-> req[p].tenantId,
                           agent_id |-> req[p].agentId, assigned_at |-> "NOW"]
                     ELSE [vn[d] EXCEPT !.status = "available", !.tenant_id = NOID,
                                        !.agent_id = NOID, !.assigned_at = NULL]]
    /\ UNCHANGED <<tenants, agents>>

\* A catch block without its ROLLBACK: the transaction stays open on the client that
\* goes back to the pool.
Rollback_Missing(p) == UNCHANGED <<vn, vnLock, tenants, agents, agLock>>

\* catch (error) { await client.query('ROLLBACK'); throw error } finally { client.release() }:
\* the writes of the open transaction are dropped and its row locks given up.
Rollback(p) ==
    /\ vnLock' = Unlock(vnLock, p)
    /\ agLock' = Unlock(agLock, p)
    /\ UNCHANGED <<vn, tenants, agents>>

\* ------------------------------------------------ VerimorService.assignNumberToTenant
\* A payment handler that calls assignNumberToTenant a second time after the first
\* call threw.
AssignThrows_Retry(r, why) ==
    CASE r.op = "assign" -> [[r EXCEPT !.pc = "done", !.out = why] EXCEPT !.numberId = NULL]
      [] OTHER -> [r EXCEPT !.pc = IF r.stages = <<>> THEN "a_select"
                                   ELSE IF r.op = "callback" THEN "c_mock" ELSE "d_buy",
                            !.numberId = NULL,
                            !.stages = Append(@, "pool:" \o why)]

\* What the caller of assignNumberToTenant does with a thrown error.
AssignThrows(r, why) ==
    CASE r.op = "assign"       -> [Finish(r, why) EXCEPT !.numberId = NULL]
      [] r.op = "callback"     -> [r EXCEPT !.pc = "c_mock", !.numberId = NULL,
                                            !.stages = Append(@, "pool:" \o why)]
      [] r.op = "callbackDist" -> [r EXCEPT !.pc = "d_buy", !.numberId = NULL,
                                            !.stages = Append(@, "pool:" \o why)]

\* What the caller does with the returned AssignedNumberResult.
AssignReturns(r) ==
    CASE r.op = "assign" -> Finish(r, "ok")
      [] OTHER           -> [Finish(r, "ok") EXCEPT !.phoneNumber = r.numberId,
                                                    !.assignmentType = "verimor",
                                                    !.stages = Append(@, "pool:ok")]

\* The selection without FOR UPDATE SKIP LOCKED: rows locked by another claim are returned too.
SelectAvailable_NoSkipLocked == {d \in PoolNumbers : vn[d].status = "available"}

\* The selection without its WHERE clause: any unlocked row of the pool is returned.
SelectAvailable_AnyStatus == {d \in PoolNumbers : vn[d].status # "absent" /\ vnLock[d] = 0}

\* SELECT ... WHERE status = 'available' LIMIT 1 FOR UPDATE SKIP LOCKED:
\* the rows the statement can return and lock.
SelectAvailable == {d \in PoolNumbers : vn[d].status = "available" /\ vnLock[d] = 0}

\* UPDATE verimor_numbers SET status = 'assigned', tenant_id, agent_id, assigned_at = NOW()
Assigned(t, a) == [status |-> "assigned", tenant_id |-> t, agent_id |-> a, assigned_at |-> "NOW"]

\* POST /test/assign-number
StartAssign(p) ==
    /\ CanStart(p)
    /\ \E t \in TenantIds : \E a \in AgentsOf(t) :
         /\ tenants[t].exists
         /\ req' = [req EXCEPT ![p] = [Idle EXCEPT !.op = "assign", !.pc = "a_select",
                                                 !.tenantId = t, !.agentId = a]]
    /\ UNCHANGED <<vn, vnLock, tenants, agents, agLock, env, faults>>

\* The SELECT with FOR UPDATE alone: it waits while another transaction holds a row
\* that matches its WHERE clause.
AssignSelect_Waits(p) ==
    /\ req[p].pc = "a_select"
    /\ \A d \in PoolNumbers : vn[d].status = "available" => vnLock[d] \in {0, p}
    /\ IF SelectAvailable = {}
       THEN /\ req' = [req EXCEPT ![p] = AssignThrows(req[p], "EmptyPool")]
            /\ UNCHANGED vnLock
       ELSE \E d \in SelectAvailable :
            /\ vnLock' = [vnLock EXCEPT ![d] = p]
            /\ req' = [req EXCEPT ![p] = [req[p] EXCEPT !.pc = "a_update", !.numberId = d]]
    /\ UNCHANGED <<vn, tenants, agents, agLock, env, faults>>

\* pool.connect(); BEGIN; SELECT ... FOR UPDATE SKIP LOCKED; on no row: ROLLBACK and
\* throw, which the catch block answers with a second ROLLBACK before finally releases
\* the client
AssignSelect(p) ==
    /\ req[p].pc = "a_select"
    /\ IF SelectAvailable = {}
       THEN /\ req' = [req EXCEPT ![p] = AssignThrows(
                          Did(req[p], <<"connect", "BEGIN", "ROLLBACK", "ROLLBACK", "release">>),
                          "EmptyPool")]
            /\ UNCHANGED vnLock
       ELSE \E d \in SelectAvailable :
            /\ vnLock' = [vnLock EXCEPT ![d] = p]
            /\ req' = [req EXCEPT ![p] = [Did(req[p], <<"connect", "BEGIN">>) EXCEPT
                                            !.pc = "a_update", !.numberId = d]]
    /\ UNCHANGED <<vn, tenants, agents, agLock, env, faults>>

\* UPDATE verimor_numbers SET status = 'assigned', ... WHERE id = numberId (the row this
\* transaction locked); UPDATE agents SET verimor_did = didNumber WHERE id = agentId
\* (waits while another transaction holds the agent row)
AssignUpdate(p) ==
    /\ req[p].pc = "a_update"
    /\ vnLock[req[p].numberId] \in {0, p}
    /\ agLock[req[p].agentId] \in {0, p}
    /\ vnLock' = [vnLock EXCEPT ![req[p].numberId] = p]
    /\ agLock' = [agLock EXCEPT ![req[p].agentId] = IF agents[req[p].agentId].exists THEN p ELSE @]
    /\ req' = [req EXCEPT ![p] = [req[p] EXCEPT !.pc = "a_commit"]]
    /\ UNCHANGED <<vn, tenants, agents, env, faults>>

\* An assignment that also gives back the numbers the agent had before.
AssignCommit_FreesOld(p) ==
    /\ req[p].pc = "a_commit"
    /\ vn' = [d \in PoolNumbers |->
                IF d = req[p].numberId THEN Assigned(req[p].tenantId, req[p].agentId)
                ELSE IF vn[d].status = "assigned" /\ vn[d].agent_id = req[p].agentId
                     THEN Available ELSE vn[d]]
    /\ agents' = [agents EXCEPT ![req[p].agentId].verimor_did =
                     IF agents[req[p].agentId].exists THEN req[p].numberId ELSE @]
    /\ vnLock' = Unlock(vnLock, p)
    /\ agLock' = Unlock(agLock, p)
    /\ req' = [req EXCEPT ![p] = AssignReturns(req[p])]
    /\ UNCHANGED <<tenants, env, faults>>

\* COMMIT; return { success, didNumber, ... }
AssignCommit(p) ==
    /\ req[p].pc = "a_commit"
    /\ vn' = [vn EXCEPT ![req[p].numberId] = Assigned(req[p].tenantId, req[p].agentId)]
    /\ agents' = [agents EXCEPT ![req[p].agentId].verimor_did =
                     IF agents[req[p].agentId].exists THEN req[p].numberId ELSE @]
    /\ vnLock' = Unlock(vnLock, p)
    /\ agLock' = Unlock(agLock, p)
    /\ req' = [req EXCEPT ![p] = AssignReturns(Did(req[p], <<"COMMIT", "release">>))]
    /\ UNCHANGED <<tenants, env, faults>>

\* A statement of the transaction fails: catch, ROLLBACK, rethrow; finally releases
\* the client
AssignFail(p) ==
    /\ req[p].pc \in {"a_update", "a_commit"}
    /\ CanFail
    /\ faults' = faults + 1
    /\ Rollback(p)
    /\ req' = [req EXCEPT ![p] = AssignThrows(Did(req[p], <<"ROLLBACK", "release">>), "error")]
    /\ UNCHANGED env

\* ------------------------------------------------------- VerimorService.releaseNumber
\* A release that resets the status and leaves the owner columns as they are.
ReleasedRow_KeepsOwner(row) == [row EXCEPT !.status = "available"]

\* A release that records its own time in the timestamp column.
ReleasedRow_Stamps(row) == [row EXCEPT !.status = "available", !.tenant_id = NOID, !.agent_id = NOID,
                                       !.assigned_at = "NOW"]

\* UPDATE verimor_numbers SET status = 'available', tenant_id = NULL, agent_id = NULL,
\* assigned_at = NULL
ReleasedRow(row) == [row EXCEPT !.status = "available", !.tenant_id = NOID, !.agent_id = NOID,
                                !.assigned_at = NULL]

\* POST /test/release-number
StartRelease(p) ==
    /\ CanStart(p)
    /\ \E d \in PoolNumbers :
         req' = [req EXCEPT ![p] = [Idle EXCEPT !.op = "release", !.pc = "r_select", !.arg = d]]
    /\ UNCHANGED <<vn, vnLock, tenants, agents, agLock, env, faults>>

\* The SELECT without the rows.length === 0 branch: the release goes on to its UPDATEs.
ReleaseSelect_NoCheck(p) ==
    /\ req[p].pc = "r_select"
    /\ req' = [req EXCEPT ![p] = [req[p] EXCEPT !.pc = "r_update", !.numberId = req[p].arg,
                                               !.agentId = vn[req[p].arg].agent_id]]
    /\ UNCHANGED <<vn, vnLock, tenants, agents, agLock, env, faults>>

\* pool.connect(); BEGIN; SELECT id, tenant_id, agent_id ... WHERE did_number = $1; on no
\* row: ROLLBACK, throw, the ROLLBACK of the catch block, client.release()
ReleaseSelect(p) ==
    /\ req[p].pc = "r_select"
    /\ req' = [req EXCEPT ![p] =
                 IF vn[req[p].arg].status = "absent"
                 THEN Finish(Did(req[p], <<"connect", "BEGIN", "ROLLBACK", "ROLLBACK", "release">>),
                             "NotFound")
                 ELSE [Did(req[p], <<"connect", "BEGIN">>) EXCEPT
                          !.pc = "r_update", !.numberId = req[p].arg,
                          !.agentId = vn[req[p].arg].agent_id]]
    /\ UNCHANGED <<vn, vnLock, tenants, agents, agLock, env, faults>>

\* UPDATE verimor_numbers SET status = 'available', ... = NULL WHERE id = $1
\* (waits while another transaction holds the row)
ReleaseUpdateNumber(p) ==
    /\ req[p].pc = "r_update"
    /\ vnLock[req[p].numberId] \in {0, p}
    /\ vnLock' = [vnLock EXCEPT ![req[p].numberId] = p]
    /\ req' = [req EXCEPT ![p] = [req[p] EXCEPT !.pc =
                 IF req[p].agentId # NOID THEN "r_agent" ELSE "r_commit"]]
    /\ UNCHANGED <<vn, tenants, agents, agLock, env, faults>>

\* if (agentId) UPDATE agents SET verimor_did = NULL WHERE id = agentId
ReleaseUpdateAgent(p) ==
    /\ req[p].pc = "r_agent"
    /\ agLock[req[p].agentId] \in {0, p}
    /\ agLock' = [agLock EXCEPT ![req[p].agentId] = p]
    /\ req' = [req EXCEPT ![p] = [req[p] EXCEPT !.pc = "r_commit"]]
    /\ UNCHANGED <<vn, vnLock, tenants, agents, env, faults>>

\* COMMIT; return { success: true, message }
ReleaseCommit(p) ==
    /\ req[p].pc = "r_commit"
    /\ vn' = [vn EXCEPT ![req[p].numberId] = ReleasedRow(@)]
    /\ agents' = IF req[p].agentId # NOID
                 THEN [agents EXCEPT ![req[p].agentId].verimor_did = NULL]
                 ELSE agents
    /\ vnLock' = Unlock(vnLock, p)
    /\ agLock' = Unlock(agLock, p)
    /\ req' = [req EXCEPT ![p] = Finish(Did(req[p], <<"COMMIT", "release">>), "ok")]
    /\ UNCHANGED <<tenants, env, faults>>

\* A statement of the transaction fails: catch, ROLLBACK, rethrow; finally releases
\* the client
ReleaseFail(p) ==
    /\ req[p].pc \in {"r_update", "r_agent", "r_commit"}
    /\ CanFail
    /\ faults' = faults + 1
    /\ Rollback(p)
    /\ req' = [req EXCEPT ![p] = Finish(Did(req[p], <<"ROLLBACK", "release">>), "error")]
    /\ UNCHANGED env

\* ---------------------------------------------------- VerimorService.getAvailableCount
\* A count that leaves out the rows an open transaction has locked.
getAvailableCount_SkipLocked == Cardinality({d \in PoolNumbers : vn[d].status = "available" /\ vnLock[d] = 0})

\* GET /test/available-count: SELECT COUNT(*) FROM verimor_numbers WHERE status = 'available'
getAvailableCount == Cardinality({d \in PoolNumbers : vn[d].status = "available"})

\* ----------------------------------------------------------- VerimorService.addToPool
\* The INSERT without the UNIQUE constraint on did_number: a second row of the number
\* is stored, and a lookup by did_number finds the new, available one.
AddToPool_NoUnique(p) ==
    /\ CanStart(p)
    /\ \E d \in PoolNumbers :
         /\ vn' = [vn EXCEPT ![d] = Available]
         /\ req' = [req EXCEPT ![p] = [Idle EXCEPT !.op = "addToPool", !.pc = "done",
                                                 !.arg = d, !.out = "ok"]]
    /\ UNCHANGED <<vnLock, tenants, agents, agLock, env, faults>>

\* POST /admin/verimor/add-number: INSERT INTO verimor_numbers (did_number, status, ...)
\* VALUES ($1, 'available', $2); did_number is UNIQUE
AddToPool(p) ==
    /\ CanStart(p)
    /\ \E d \in PoolNumbers :
         IF vn[d].status = "absent"
         THEN /\ vn' = [vn EXCEPT ![d] = Available]
              /\ req' = [req EXCEPT ![p] = [Idle EXCEPT !.op = "addToPool", !.pc = "done",
                                                      !.arg = d, !.out = "ok"]]
         ELSE /\ vn' = vn
              /\ req' = [req EXCEPT ![p] = [Idle EXCEPT !.op = "addToPool", !.pc = "done",
                                                      !.arg = d, !.out = "error"]]
    /\ UNCHANGED <<vnLock, tenants, agents, agLock, env, faults>>

\* ------------------------------------------------------------ AuthService.signupFromForm
\* POST /public/signup: BEGIN; INSERT tenants; INSERT agents; INSERT quotas;
\* SELECT id FROM agents WHERE tenant_id = $1 (the new rows belong to the open transaction)
StartSignup(p) ==
    /\ CanStart(p)
    /\ req' = [req EXCEPT ![p] = [Idle EXCEPT !.op = "signup", !.pc = "s_select",
                                            !.tenantId = FreshId, !.agentId = FreshId]]
    /\ UNCHANGED <<vn, vnLock, tenants, agents, agLock, env, faults>>

\* SELECT id, did_number FROM verimor_numbers WHERE status = 'available' LIMIT 1
\* FOR UPDATE SKIP LOCKED; no row leaves phoneNumber = null, assignmentType = 'none'
SignupSelect(p) ==
    /\ req[p].pc = "s_select"
    /\ IF SelectAvailable = {}
       THEN /\ req' = [req EXCEPT ![p] = [req[p] EXCEPT !.pc = "s_commit"]]
            /\ UNCHANGED vnLock
       ELSE \E d \in SelectAvailable :
            /\ vnLock' = [vnLock EXCEPT ![d] = p]
            /\ req' = [req EXCEPT ![p] = [req[p] EXCEPT !.pc = "s_update", !.numberId = d]]
    /\ UNCHANGED <<vn, tenants, agents, agLock, env, faults>>

\* UPDATE verimor_numbers SET status = 'assigned', ... WHERE id = numberId;
\* UPDATE agents SET verimor_did = didNumber WHERE id = agentId (the agent row is new
\* and belongs to this transaction)
SignupUpdate(p) ==
    /\ req[p].pc = "s_update"
    /\ vnLock[req[p].numberId] \in {0, p}
    /\ vnLock' = [vnLock EXCEPT ![req[p].numberId] = p]
    /\ req' = [req EXCEPT ![p] = [req[p] EXCEPT !.pc = "s_commit", !.phoneNumber = req[p].numberId,
                                               !.assignmentType = "verimor"]]
    /\ UNCHANGED <<vn, tenants, agents, agLock, env, faults>>

\* COMMIT; return { success, tenant, phoneNumber, assignmentType }
SignupCommit(p) ==
    /\ req[p].pc = "s_commit"
    /\ tenants' = [tenants EXCEPT ![req[p].tenantId] = [exists |-> TRUE, paynet_ref_code |-> NULL]]
    /\ agents' = [agents EXCEPT ![req[p].agentId] =
                    [NewAgent(req[p].tenantId) EXCEPT !.verimor_did = req[p].phoneNumber]]
    /\ vn' = IF req[p].numberId # NULL
             THEN [vn EXCEPT ![req[p].numberId] = Assigned(req[p].tenantId, req[p].agentId)]
             ELSE vn
    /\ vnLock' = Unlock(vnLock, p)
    /\ req' = [req EXCEPT ![p] = Finish(req[p], "ok")]
    /\ UNCHANGED <<agLock, env, faults>>

\* A statement of the transaction fails: catch, ROLLBACK, rethrow (HTTP 500)
SignupFail(p) ==
    /\ req[p].pc \in {"s_select", "s_update", "s_commit"}
    /\ CanFail
    /\ faults' = faults + 1
    /\ Rollback(p)
    /\ req' = [req EXCEPT ![p] = [Finish(req[p], "error") EXCEPT
                  !.tenantId = NOID, !.agentId = NOID, !.numberId = NULL,
                  !.phoneNumber = NULL, !.assignmentType = "none"]]
    /\ UNCHANGED env

\* ------------------------------------------------------------------- POST /n8n/webhook
\* The number of a person who calls a tenant's number.
CALLER == "+905321234567"

\* const { From: caller, To: callee } = req.body; const phoneNumber = caller || callee;
\* SELECT a.*, t.slug ... FROM agents a JOIN tenants t ... WHERE a.verimor_did = $1;
\* no row: { success: false }, otherwise the agent of rows[0]
N8nWebhook(p) ==
    /\ CanStart(p)
    /\ \E caller \in {NULL, CALLER}, callee \in PoolNumbers :
         LET phoneNumber == IF caller # NULL THEN caller ELSE callee
             rows == {a \in TenantIds : /\ agents[a].exists
                                        /\ tenants[agents[a].tenant_id].exists
                                        /\ agents[a].verimor_did = phoneNumber}
         IN  IF rows = {}
             THEN req' = [req EXCEPT ![p] = [Idle EXCEPT !.op = "n8n", !.pc = "done",
                             !.arg = callee, !.phoneNumber = phoneNumber, !.out = "NoAgent"]]
             ELSE \E a \in rows :
                    req' = [req EXCEPT ![p] = [Idle EXCEPT !.op = "n8n", !.pc = "done",
                             !.arg = callee, !.phoneNumber = phoneNumber, !.out = "ok",
                             !.agentId = a, !.tenantId = agents[a].tenant_id]]
    /\ UNCHANGED <<vn, vnLock, tenants, agents, agLock, env, faults>>

\* ------------------------------------------------------ AuthService.createTenantFromPayment
\* The INSERT without the reference column, as signupFromForm writes it.
PaymentTenantRow_NoRef(ref) == [exists |-> TRUE, paynet_ref_code |-> NULL]

\* INSERT INTO tenants (name, slug, email, password_hash, paynet_ref_code)
\* VALUES ($1, $2, $3, $4, $5): the row of a payment with reference ref
PaymentTenantRow(ref) == [exists |-> TRUE, paynet_ref_code |-> ref]

\* tenants.paynet_ref_code carries a uniqueness constraint: a committed row with the
\* same reference makes the INSERT fail, an uncommitted one makes it wait.
RefTaken(k)      == k # NULL /\ \E t \in TenantIds : tenants[t].exists /\ tenants[t].paynet_ref_code = k
RefPending(k, p) == k # NULL /\ \E q \in Reqs \ {p} :
                        req[q].pc = "t_commit" /\ PaymentTenantRow(req[q].arg).paynet_ref_code = k

\* status === '1' || status === 'success' || status === 1
Statuses == {"1", "success", "0"}
IsSuccess(status) == status \in {"1", "success"}

\* A handler that answers a failed payment and goes on to create the tenant all the same.
StartCallback_CreatesAnyway(p) ==
    /\ CanStart(p)
    /\ \E status \in Statuses, ref \in Refs :
         req' = [req EXCEPT ![p] =
                   IF IsSuccess(status)
                   THEN [Idle EXCEPT !.op = env.build, !.pc = "t_insert", !.arg = ref]
                   ELSE [Idle EXCEPT !.op = env.build, !.pc = "t_insert", !.arg = ref, !.out = "failed"]]
    /\ UNCHANGED <<vn, vnLock, tenants, agents, agLock, env, faults>>

\* POST /paynet/callback, src/index.ts ("callback") and the compiled build ("callbackDist")
StartCallback(p) ==
    /\ CanStart(p)
    /\ \E status \in Statuses, ref \in Refs :
         req' = [req EXCEPT ![p] =
                   IF IsSuccess(status)
                   THEN [Idle EXCEPT !.op = env.build, !.pc = "t_insert", !.arg = ref]
                   ELSE [Idle EXCEPT !.op = env.build, !.pc = "done", !.arg = ref, !.out = "failed"]]
    /\ UNCHANGED <<vn, vnLock, tenants, agents, agLock, env, faults>>

\* BEGIN; INSERT INTO tenants ... RETURNING id; INSERT INTO agents; INSERT INTO quotas.
\* A duplicate reference: catch, ROLLBACK, rethrow; the handler answers HTTP 500.
TenantInsert(p) ==
    /\ req[p].pc = "t_insert"
    /\ LET k == PaymentTenantRow(req[p].arg).paynet_ref_code IN
       /\ ~RefPending(k, p)
       /\ req' = [req EXCEPT ![p] =
                    IF RefTaken(k)
                    THEN Finish(req[p], "error")
                    ELSE [req[p] EXCEPT !.pc = "t_commit", !.tenantId = FreshId, !.agentId = FreshId]]
    /\ UNCHANGED <<vn, vnLock, tenants, agents, agLock, env, faults>>

\* A handler that starts provisioning while the tenant transaction is still open.
TenantCommit_StillOpen(p) ==
    /\ req[p].pc = "t_commit"
    /\ req' = [req EXCEPT ![p] = [req[p] EXCEPT !.pc = "a_select"]]
    /\ UNCHANGED <<vn, vnLock, tenants, agents, agLock, env, faults>>

\* COMMIT; return { tenantId, slug, ... }.  The handler then reads the agent
\* (SELECT id FROM agents WHERE tenant_id = $1 LIMIT 1) and calls assignNumberToTenant.
TenantCommit(p) ==
    /\ req[p].pc = "t_commit"
    /\ tenants' = [tenants EXCEPT ![req[p].tenantId] = PaymentTenantRow(req[p].arg)]
    /\ agents' = [agents EXCEPT ![req[p].agentId] = NewAgent(req[p].tenantId)]
    /\ req' = [req EXCEPT ![p] = [req[p] EXCEPT !.pc = "a_select"]]
    /\ UNCHANGED <<vn, vnLock, agLock, env, faults>>

\* A statement of the transaction fails: catch, ROLLBACK, rethrow (HTTP 500)
TenantFail(p) ==
    /\ req[p].pc \in {"t_insert", "t_commit"}
    /\ CanFail
    /\ faults' = faults + 1
    /\ req' = [req EXCEPT ![p] = [Finish(req[p], "error") EXCEPT !.tenantId = NOID, !.agentId = NOID]]
    /\ UNCHANGED <<vn, vnLock, tenants, agents, agLock, env>>

\* ------------------------------------------------- POST /paynet/callback, src/index.ts
\* agents.verimor_did REFERENCES verimor_numbers(did_number)
VerimorDidFkey(did) == did = NULL \/ \E d \in PoolNumbers : d = did /\ vn[d].status # "absent"

\* UPDATE agents SET ... WHERE tenant_id = $1 waits for the row locks of the agents
AgentsFree(t, p) == \A a \in AgentsOf(t) : agLock[a] \in {0, p}

\* catch (verimorErr): phoneNumber = '+905550001122'; assignmentType = 'mock';
\* UPDATE agents SET verimor_did = $1 WHERE tenant_id = $2.  The statement is not
\* guarded: when it fails the handler answers HTTP 500.
CallbackMock(p) ==
    /\ req[p].pc = "c_mock"
    /\ AgentsFree(req[p].tenantId, p)
    /\ LET r == [req[p] EXCEPT !.stages = Append(@, "placeholder")] IN
       IF VerimorDidFkey(PLACEHOLDER)
       THEN /\ agents' = [a \in TenantIds |->
                            IF a \in AgentsOf(req[p].tenantId)
                            THEN [agents[a] EXCEPT !.verimor_did = PLACEHOLDER]
                            ELSE agents[a]]
            /\ req' = [req EXCEPT ![p] = [Finish(r, "ok") EXCEPT !.phoneNumber = PLACEHOLDER,
                                                               !.assignmentType = "mock"]]
       ELSE /\ agents' = agents
            /\ req' = [req EXCEPT ![p] = Finish(r, "error")]
    /\ UNCHANGED <<vn, vnLock, tenants, agLock, env, faults>>

\* ---------------------------------------------- POST /paynet/callback, compiled build
\* twilio_sid of a purchase
Sid(phone) == IF phone = PLACEHOLDER THEN "mock_sid" ELSE "PN" \o phone

SetTwilio(t, phone, sid) ==
    [a \in TenantIds |-> IF a \in AgentsOf(t)
                         THEN [agents[a] EXCEPT !.twilio_phone_number = phone, !.twilio_sid = sid]
                         ELSE agents[a]]

\* A mock purchase that hands out the numbers of a list one after the other.
DistBuy_MockFromList(p) ==
    /\ req[p].pc = "d_buy"
    /\ IF ~env.client
       THEN /\ env' = [env EXCEPT !.sold = (@ + 1) % Len(Inventory)]
            /\ req' = [req EXCEPT ![p] = [req[p] EXCEPT !.pc = "d_save",
                         !.phoneNumber = <<PLACEHOLDER, "+905550001123">>[env.sold + 1],
                         !.assignmentType = "twilio", !.stages = Append(@, "provider:mock")]]
       ELSE \/ /\ env.sold < Len(Inventory)
               /\ env' = [env EXCEPT !.sold = @ + 1]
               /\ req' = [req EXCEPT ![p] = [req[p] EXCEPT !.pc = "d_save",
                            !.phoneNumber = Inventory[env.sold + 1],
                            !.assignmentType = "twilio", !.stages = Append(@, "provider:ok")]]
            \/ /\ req' = [req EXCEPT ![p] = [req[p] EXCEPT !.pc = "d_mock",
                            !.stages = Append(@, "provider:failed")]]
               /\ UNCHANGED env
    /\ UNCHANGED <<vn, vnLock, tenants, agents, agLock, faults>>

\* A handler without catch (twilioErr): the error of the provider call ends the delivery.
DistBuy_NoCatch(p) ==
    /\ req[p].pc = "d_buy"
    /\ IF ~env.client
       THEN /\ req' = [req EXCEPT ![p] = [req[p] EXCEPT !.pc = "d_save", !.phoneNumber = PLACEHOLDER,
                         !.assignmentType = "twilio", !.stages = Append(@, "provider:mock")]]
            /\ UNCHANGED env
       ELSE \/ /\ env.sold < Len(Inventory)
               /\ env' = [env EXCEPT !.sold = @ + 1]
               /\ req' = [req EXCEPT ![p] = [req[p] EXCEPT !.pc = "d_save",
                            !.phoneNumber = Inventory[env.sold + 1],
                            !.assignmentType = "twilio", !.stages = Append(@, "provider:ok")]]
            \/ /\ req' = [req EXCEPT ![p] = [req[p] EXCEPT !.pc = "done", !.out = "error",
                            !.stages = Append(@, "provider:failed")]]
               /\ UNCHANGED env
    /\ UNCHANGED <<vn, vnLock, tenants, agents, agLock, faults>>

\* TwilioService.buyPhoneNumber(tenant.slug): without credentials the mock purchase,
\* otherwise a number of the provider's inventory or an error
DistBuy(p) ==
    /\ req[p].pc = "d_buy"
    /\ IF ~env.client
       THEN /\ req' = [req EXCEPT ![p] = [req[p] EXCEPT !.pc = "d_save", !.phoneNumber = PLACEHOLDER,
                         !.assignmentType = "twilio", !.stages = Append(@, "provider:mock")]]
            /\ UNCHANGED env
       ELSE \/ /\ env.sold < Len(Inventory)
               /\ env' = [env EXCEPT !.sold = @ + 1]
               /\ req' = [req EXCEPT ![p] = [req[p] EXCEPT !.pc = "d_save",
                            !.phoneNumber = Inventory[env.sold + 1],
                            !.assignmentType = "twilio", !.stages = Append(@, "provider:ok")]]
            \/ /\ req' = [req EXCEPT ![p] = [req[p] EXCEPT !.pc = "d_mock",
                            !.stages = Append(@, "provider:failed")]]
               /\ UNCHANGED env
    /\ UNCHANGED <<vn, vnLock, tenants, agents, agLock, faults>>

\* UPDATE agents SET twilio_phone_number = $1, twilio_sid = $2 WHERE tenant_id = $3
DistSave(p) ==
    /\ req[p].pc = "d_save"
    /\ AgentsFree(req[p].tenantId, p)
    /\ agents' = SetTwilio(req[p].tenantId, req[p].phoneNumber, Sid(req[p].phoneNumber))
    /\ req' = [req EXCEPT ![p] = Finish(req[p], "ok")]
    /\ UNCHANGED <<vn, vnLock, tenants, agLock, env, faults>>

\* The UPDATE fails: catch (twilioErr) takes over
DistSaveFail(p) ==
    /\ req[p].pc = "d_save"
    /\ CanFail
    /\ faults' = faults + 1
    /\ req' = [req EXCEPT ![p] = [req[p] EXCEPT !.pc = "d_mock",
                                               !.stages = Append(@, "persist:failed")]]
    /\ UNCHANGED <<vn, vnLock, tenants, agents, agLock, env>>

\* catch (twilioErr): phoneNumber = '+905550001122'; assignmentType = 'mock';
\* UPDATE agents SET twilio_phone_number = $1 WHERE tenant_id = $2
DistMock(p) ==
    /\ req[p].pc = "d_mock"
    /\ AgentsFree(req[p].tenantId, p)
    /\ agents' = [a \in TenantIds |-> IF a \in AgentsOf(req[p].tenantId)
                                      THEN [agents[a] EXCEPT !.twilio_phone_number = PLACEHOLDER]
                                      ELSE agents[a]]
    /\ req' = [req EXCEPT ![p] = [Finish(req[p], "ok") EXCEPT !.phoneNumber = PLACEHOLDER,
                    !.assignmentType = "mock", !.stages = Append(@, "placeholder")]]
    /\ UNCHANGED <<vn, vnLock, tenants, agLock, env, faults>>

\* The UPDATE of the catch block fails: nothing guards it, the handler answers HTTP 500
DistMockFail(p) ==
    /\ req[p].pc = "d_mock"
    /\ CanFail
    /\ faults' = faults + 1
    /\ req' = [req EXCEPT ![p] = [Finish(req[p], "error") EXCEPT !.phoneNumber = NULL,
                    !.assignmentType = "none", !.stages = Append(@, "placeholder")]]
    /\ UNCHANGED <<vn, vnLock, tenants, agents, agLock, env>>

\* ------------------------------------------------------------------ pool specification
\* The pool before the run: every number is not yet added, available or blocked.
InitPoolRows == [PoolNumbers -> {NoNumber, Available, Blocked}]

InitCommon ==
    /\ vnLock = [d \in PoolNumbers |-> 0]
    /\ agLock = [a \in TenantIds |-> 0]
    /\ req = [p \in Reqs |-> Idle]
    /\ faults = 0

Init ==
    /\ InitCommon
    /\ vn \in InitPoolRows
    /\ tenants = [t \in TenantIds |-> IF t <= InitTenants
                                      THEN [exists |-> TRUE, paynet_ref_code |-> NULL]
                                      ELSE NoTenant]
    /\ agents = [a \in TenantIds |-> IF a <= InitTenants THEN NewAgent(a) ELSE NoAgent]
    /\ env = [build |-> "callback", client |-> FALSE, sold |-> 0]

Next ==
    \E p \in Reqs :
        \/ StartAssign(p) \/ AssignSelect(p) \/ AssignUpdate(p)
        \/ AssignCommit(p) \/ AssignFail(p)
        \/ StartRelease(p) \/ ReleaseSelect(p) \/ ReleaseUpdateNumber(p) \/ ReleaseUpdateAgent(p)
        \/ ReleaseCommit(p) \/ ReleaseFail(p)
        \/ AddToPool(p)
        \/ StartSignup(p) \/ SignupSelect(p) \/ SignupUpdate(p) \/ SignupCommit(p) \/ SignupFail(p)

Spec == Init /\ [][Next]_vars

\* --------------------------------------------------------------- webhook specification
InitWebhook ==
    /\ InitCommon
    /\ vn \in [PoolNumbers -> {NoNumber, Available}]
    /\ tenants = [t \in TenantIds |-> NoTenant]
    /\ agents = [a \in TenantIds |-> NoAgent]
    /\ env \in [build : {"callback", "callbackDist"}, client : BOOLEAN, sold : {0}]

NextWebhook ==
    \E p \in Reqs :
        \/ StartCallback(p) \/ TenantInsert(p) \/ TenantCommit(p) \/ TenantFail(p)
        \/ AssignSelect(p) \/ AssignUpdate(p)
        \/ AssignCommit(p) \/ AssignFail(p)
        \/ CallbackMock(p)
        \/ DistBuy(p) \/ DistSave(p) \/ DistSaveFail(p) \/ DistMock(p) \/ DistMockFail(p)

SpecWebhook == InitWebhook /\ [][NextWebhook]_vars

\* ---------------------------------------------------------------- replay specification
\* Deliveries arrive one after the other: a delivery starts when no request is in flight.
NoneInFlight == \A q \in Reqs : req[q].op = "idle" \/ Done(q)

StartDelivery(p) == StartCallback(p) /\ NoneInFlight

NextReplay ==
    \E p \in Reqs :
        \/ StartDelivery(p)
        \/ TenantInsert(p) \/ TenantCommit(p) \/ TenantFail(p)
        \/ AssignSelect(p) \/ AssignUpdate(p) \/ AssignCommit(p) \/ AssignFail(p)
        \/ CallbackMock(p)
        \/ DistBuy(p) \/ DistSave(p) \/ DistSaveFail(p) \/ DistMock(p) \/ DistMockFail(p)

SpecReplay == InitWebhook /\ [][NextReplay]_vars

\* ----------------------------------------------------------------- claim specification
\* Only claim-and-assign requests run: no release, no addToPool.
NextClaim ==
    \E p \in Reqs :
        \/ StartAssign(p) \/ AssignSelect(p) \/ AssignUpdate(p)
        \/ AssignCommit(p) \/ AssignFail(p)
        \/ StartSignup(p) \/ SignupSelect(p) \/ SignupUpdate(p) \/ SignupCommit(p) \/ SignupFail(p)

SpecClaim == Init /\ [][NextClaim]_vars

\* --------------------------------------------------------------- release specification
\* The pool before the run holds numbers that earlier requests assigned to the tenants
\* that exist; an agent carries one of the numbers assigned to it.
OwnedBy(rows, a) == {d \in PoolNumbers : rows[d] = Assigned(a, a)}

InitRelease ==
    /\ InitCommon
    /\ vn \in [PoolNumbers -> {NoNumber, Available} \cup {Assigned(t, t) : t \in 1..InitTenants}]
    /\ tenants = [t \in TenantIds |-> IF t <= InitTenants
                                      THEN [exists |-> TRUE, paynet_ref_code |-> NULL]
                                      ELSE NoTenant]
    /\ agents \in {f \in [TenantIds -> {NoAgent} \cup
                                        {[NewAgent(t) EXCEPT !.verimor_did = n] :
                                            t \in 1..InitTenants, n \in PoolNumbers \cup {NULL}}] :
                     \A a \in TenantIds :
                        IF a <= InitTenants
                        THEN /\ f[a].exists /\ f[a].tenant_id = a
                             /\ f[a].verimor_did \in (IF OwnedBy(vn, a) = {} THEN {NULL}
                                                       ELSE OwnedBy(vn, a))
                        ELSE f[a] = NoAgent}
    /\ env = [build |-> "callback", client |-> FALSE, sold |-> 0]

\* Claim-and-assign and release requests run.
NextRelease ==
    \E p \in Reqs :
        \/ StartAssign(p) \/ AssignSelect(p) \/ AssignUpdate(p)
        \/ AssignCommit(p) \/ AssignFail(p)
        \/ StartRelease(p) \/ ReleaseSelect(p) \/ ReleaseUpdateNumber(p) \/ ReleaseUpdateAgent(p)
        \/ ReleaseCommit(p) \/ ReleaseFail(p)

SpecRelease == InitRelease /\ [][NextRelease]_vars

\* -------------------------------------------------------------- provider specification
\* The compiled build of the payment handler against a pool without rows, every request
\* being served: a handler that awaits a database statement or a provider call is
\* resumed when the call settles.
InitProvider ==
    /\ InitWebhook
    /\ env.build = "callbackDist"
    /\ vn = [d \in PoolNumbers |-> NoNumber]

NextProvider ==
    \E p \in Reqs :
        \/ StartCallback(p) \/ TenantInsert(p) \/ TenantCommit(p) \/ TenantFail(p)
        \/ AssignSelect(p)
        \/ DistBuy(p) \/ DistSave(p) \/ DistSaveFail(p) \/ DistMock(p) \/ DistMockFail(p)

SpecProvider == InitProvider /\ [][NextProvider]_vars /\ WF_vars(NextProvider)

\* ------------------------------------------------------------------ call specification
\* Inbound call webhooks arrive while numbers are being assigned.
NextCall ==
    \E p \in Reqs :
        \/ StartAssign(p) \/ AssignSelect(p) \/ AssignUpdate(p)
        \/ AssignCommit(p) \/ AssignFail(p)
        \/ N8nWebhook(p)

SpecCall == InitRelease /\ [][NextCall]_vars

\* --------------------------------------------------------------- onboarding specification
\* Tenants come into being through the signup form and through paid orders; the
\* credentials of the provider are set.
NextOnboard ==
    \E p \in Reqs :
        \/ StartSignup(p) \/ SignupSelect(p) \/ SignupUpdate(p) \/ SignupCommit(p) \/ SignupFail(p)
        \/ StartCallback(p) \/ TenantInsert(p) \/ TenantCommit(p) \/ TenantFail(p)
        \/ AssignSelect(p) \/ AssignUpdate(p)
        \/ AssignCommit(p) \/ AssignFail(p)
        \/ CallbackMock(p)
        \/ DistBuy(p) \/ DistSave(p) \/ DistSaveFail(p) \/ DistMock(p) \/ DistMockFail(p)

InitOnboard == InitWebhook /\ env.client

SpecOnboard == InitOnboard /\ [][NextOnboard]_vars

\* ============================================================================ claims
\* A request holds a claimed pool row inside its open transaction.
Claiming(p) == req[p].pc \in {"a_update", "a_commit", "s_update", "s_commit"}
                 /\ req[p].numberId # NULL

\* A claim-and-assign request that returned a pool number.
Claimed(p) == /\ req[p].op \in {"assign", "signup"}
              /\ Done(p) /\ req[p].out = "ok" /\ req[p].numberId # NULL

\* C1: under any interleaving of assignNumberToTenant and signupFromForm (with
\* releaseNumber and addToPool running as well) a pool number is never handed to two
\* tenants: a transaction assigns a row only if the row was available in the committed
\* state, so no row goes from one owner to another without a release in between, and
\* two open claims never hold the same row.
C1_NeverHandedTwice ==
    /\ [][\A d \in PoolNumbers :
            (vn'[d] # vn[d] /\ vn'[d].status = "assigned") => vn[d].status = "available"]_vars
    /\ [](\A p, q \in Reqs : (p # q /\ Claiming(p) /\ Claiming(q)) => req[p].numberId # req[q].numberId)

\* Two claims are in flight at once, each on its own row, one from each code path.
C1_Witness ==
    \E p, q \in Reqs : /\ req[p].pc = "a_commit" /\ req[q].pc = "s_commit"
                       /\ req[p].numberId # NULL /\ req[q].numberId # NULL

\* The pool numbers that were available when the claims started (no release and no
\* addToPool runs): the rows that are available or assigned.
PoolSizeM == Cardinality({d \in PoolNumbers : vn[d].status \in {"available", "assigned"}})

\* A claim that found no available row: assignNumberToTenant throws the pool-empty
\* error, signupFromForm returns phoneNumber = null.
ObservedEmpty(p) == \/ req[p].op = "assign" /\ Done(p) /\ req[p].out = "EmptyPool"
                    \/ req[p].op = "signup" /\ Done(p) /\ req[p].out = "ok" /\ req[p].numberId = NULL

\* C2: N concurrent claims against a pool of M <= N available numbers: at most M
\* succeed, the successful ones return distinct numbers, and once all N have returned
\* (no database statement having failed) exactly M succeeded and the other N - M
\* observed the empty pool.
C2_AtMostMSucceed ==
    /\ Cardinality({p \in Reqs : Claimed(p)}) <= PoolSizeM
    /\ \A p, q \in Reqs : (p # q /\ Claimed(p) /\ Claimed(q)) => req[p].numberId # req[q].numberId
    /\ ((\A p \in Reqs : Done(p)) /\ faults = 0 /\ PoolSizeM <= MaxReq)
         => /\ Cardinality({p \in Reqs : Claimed(p)}) = PoolSizeM
            /\ Cardinality({p \in Reqs : ObservedEmpty(p)}) = MaxReq - PoolSizeM

\* All claims returned, one lost the race for the last number.
C2_Witness ==
    /\ \A p \in Reqs : Done(p)
    /\ faults = 0
    /\ PoolSizeM >= 1
    /\ \E p, q \in Reqs : Claimed(p) /\ ObservedEmpty(q)

\* C3: in every committed state of the pool a number is assigned iff its tenant
\* reference is set, and an available number has neither tenant nor agent.
C3_StatusMatchesOwner ==
    \A d \in PoolNumbers :
        /\ (vn[d].status = "assigned") <=> (vn[d].tenant_id # NOID)
        /\ (vn[d].status = "available") => (vn[d].tenant_id = NOID /\ vn[d].agent_id = NOID)

\* A number was assigned and a release of it has committed.
C3_Witness ==
    \E p \in Reqs : /\ req[p].op = "release" /\ Done(p) /\ req[p].out = "ok"
                    /\ req[p].agentId # NOID
                    /\ vn[req[p].numberId].status = "available"

\* The rows of the pool.
InPool(n) == \E d \in PoolNumbers : d = n /\ vn[d].status # "absent"

\* The telephony numbers an agent row carries.
NumbersOf(a) == {agents[a].verimor_did, agents[a].twilio_phone_number} \ {NULL}

\* C4: an agent's telephony number, if set, is a pool number currently assigned to the
\* agent's tenant, or it is no row of the pool at all.
C4_AgentNumberOwned ==
    \A a \in TenantIds : agents[a].exists =>
        \A n \in NumbersOf(a) :
            InPool(n) => (vn[n].status = "assigned" /\ vn[n].tenant_id = agents[a].tenant_id)

\* A delivery of the payment webhook with the success flag set.
Payment(p) == req[p].op \in {"callback", "callbackDist"} /\ req[p].out # "failed"

\* The tenants that the deliveries of reference r created.
TenantsOfRef(r) == {t \in TenantIds : tenants[t].exists /\
                       \E q \in Reqs : Payment(q) /\ req[q].arg = r /\ req[q].tenantId = t}

\* The pool numbers assigned to a set of tenants.
NumbersOfTenants(T) == {d \in PoolNumbers : vn[d].status = "assigned" /\ vn[d].tenant_id \in T}

\* C5: replaying a payment webhook reference (the second delivery after the first one
\* returned) yields one tenant, one agent and at most one number assignment, the second
\* delivery returns what the first returned, and it changes no tenant, agent or pool row.
C5_ReplayIdempotent ==
    /\ [](\A p, q \in Reqs :
            (p < q /\ Payment(p) /\ Payment(q) /\ req[p].arg = req[q].arg
               /\ Done(p) /\ req[p].out = "ok" /\ Done(q))
            => /\ Cardinality(TenantsOfRef(req[p].arg)) = 1
               /\ \A t \in TenantsOfRef(req[p].arg) : Cardinality(AgentsOf(t)) = 1
               /\ Cardinality(NumbersOfTenants(TenantsOfRef(req[p].arg))) <= 1
               /\ req[q].out = req[p].out
               /\ req[q].phoneNumber = req[p].phoneNumber
               /\ req[q].assignmentType = req[p].assignmentType)
    /\ [][\A p, q \in Reqs :
            (p < q /\ Payment(p) /\ Done(p) /\ req[p].out = "ok"
               /\ req[q].arg = req[p].arg /\ req'[q] # req[q] /\ req[q].op # "idle")
            => UNCHANGED <<vn, tenants, agents>>]_vars

PoolStages     == {"pool:ok", "pool:EmptyPool", "pool:error"}
ProviderStages == {"provider:ok", "provider:mock", "provider:failed"}
Has(st, names) == \E i \in 1..Len(st) : st[i] \in names

\* C7: the pool is empty and the external provider delivers no number: provisioning ends
\* with the placeholder +905550001122 and source kind placeholder ('mock'), the
\* placeholder is on the tenant's agent, and the tenant and agent rows are committed.
C7_PlaceholderFallback ==
    \A p \in Reqs :
        (Payment(p) /\ Done(p) /\ Has(req[p].stages, {"pool:EmptyPool"})
           /\ ~Has(req[p].stages, {"provider:ok", "provider:mock"}))
        => /\ req[p].out = "ok"
           /\ req[p].phoneNumber = PLACEHOLDER
           /\ req[p].assignmentType = "mock"
           /\ tenants[req[p].tenantId].exists
           /\ agents[req[p].agentId].exists
           /\ PLACEHOLDER \in {agents[req[p].agentId].verimor_did,
                               agents[req[p].agentId].twilio_phone_number}

\* C8: the provisioning step never raises to its caller: once provisioning has started,
\* the delivery ends with a provisioning result, whatever the stages did.
C8_NeverRaises ==
    \A p \in Reqs : (Payment(p) /\ Done(p) /\ req[p].stages # <<>>) => req[p].out = "ok"

\* C9: the stages follow the chain pool -> external provider -> placeholder: the pool is
\* tried first, the provider only after the pool stage failed, the placeholder only
\* after the provider stage was tried and failed.
C9_PriorityChain ==
    \A p \in Reqs :
        LET st == req[p].stages IN
        \A i \in 1..Len(st) :
            /\ (i = 1) => st[i] \in PoolStages
            /\ (st[i] \in ProviderStages) => (i = 2 /\ st[1] \in {"pool:EmptyPool", "pool:error"})
            /\ (st[i] = "placeholder") =>
                  /\ Has(SubSeq(st, 1, i - 1), ProviderStages)
                  /\ Has(SubSeq(st, 1, i - 1), {"provider:failed", "persist:failed"})

\* C10: no partial commit is visible: a committed tenant has its agent and the agent
\* has its number.
C10_NoPartialCommit ==
    \A t \in TenantIds : tenants[t].exists =>
        \E a \in AgentsOf(t) : {agents[a].verimor_did, agents[a].twilio_phone_number} # {NULL}

\* The position of a request inside an open assign, release or signup transaction,
\* after its first statement ran.
InTransaction(r) == r.pc \in {"a_update", "a_commit", "r_update", "r_agent", "r_commit",
                              "s_select", "s_update", "s_commit"}

\* What the caller of a failed transaction receives: the rethrown error, which the
\* payment handler catches as the failure of its pool stage.
ReceivedFailure(r) == \/ r.pc = "done" /\ r.out = "error"
                      \/ r.op \in {"callback", "callbackDist"} /\ r.stages # <<>>
                           /\ r.stages[Len(r.stages)] = "pool:error"

\* C11: a statement inside an assign, release or signup transaction fails after earlier
\* statements of the transaction ran: the step leaves every pool, tenant and agent row
\* as it was before the attempt, the transaction keeps no row lock, and the caller
\* receives a failure.
C11_FailureRollsBack ==
    [][\A p \in Reqs :
         (InTransaction(req[p]) /\ req'[p] # req[p] /\ faults' # faults)
         => /\ UNCHANGED <<vn, tenants, agents>>
            /\ \A d \in PoolNumbers : vnLock'[d] # p
            /\ \A a \in TenantIds : agLock'[a] # p
            /\ ReceivedFailure(req'[p])]_vars

\* A release failed after its UPDATE statements ran, or a claim failed after it had
\* written the row it claimed: the row is as it was, and nobody holds it.
C11_Witness ==
    \E p \in Reqs : /\ req[p].op \in {"assign", "release", "signup"}
                    /\ Done(p) /\ req[p].out = "error"
                    /\ faults > 0
                    /\ \A d \in PoolNumbers : vnLock[d] # p

\* C12: claim and assign are one atomic unit.  A claim selects a row only if no open
\* transaction holds it: the row is unlocked, its committed status is available and no
\* other in-flight claim has it; and when a transaction that claimed a row rolls back,
\* the row is available again, without owner and without lock.
C12_ClaimAssignAtomic ==
    /\ [][\A p \in Reqs :
            (~Claiming(p) /\ Claiming(p)')
            => LET d == req'[p].numberId IN
               /\ vnLock[d] = 0
               /\ vn[d].status = "available"
               /\ \A q \in Reqs \ {p} : ~(Claiming(q) /\ req[q].numberId = d)]_vars
    /\ [][\A p \in Reqs :
            (Claiming(p) /\ req'[p] # req[p] /\ faults' # faults)
            => LET d == req[p].numberId IN
               /\ vn'[d] = Available
               /\ vnLock'[d] = 0]_vars

\* A claimer found the pool empty while the only available row was held by an open
\* claim, and that claim then rolled back: the row is available and unowned.
C12_Witness ==
    /\ PoolSizeM = 1
    /\ \E d \in PoolNumbers : vn[d] = Available /\ vnLock[d] = 0
    /\ \E p, q \in Reqs : /\ p # q
                          /\ req[p].op \in {"assign", "signup"} /\ Done(p) /\ req[p].out = "error"
                          /\ ObservedEmpty(q)

\* C13: a committed releaseNumber(x) leaves x among the rows the SELECT of a claim can
\* return, and in no interleaving of claims and releases does a claim select a row whose
\* status is assigned at the time of the selection.
C13_ReleasedIsClaimable ==
    /\ [][\A p \in Reqs :
            (req[p].pc = "r_commit" /\ req'[p].pc = "done" /\ req'[p].out = "ok")
            => req[p].numberId \in SelectAvailable']_vars
    /\ [][\A p \in Reqs :
            (req'[p].numberId # req[p].numberId /\ req'[p].pc \in {"a_update", "s_update"})
            => vn[req'[p].numberId].status \notin {"assigned", "blocked", "absent"}]_vars

\* A number that was assigned before the run was released, and the claim that came
\* after the release returned it: it is assigned to the agent of that claim.
C13_Witness ==
    \E p, q \in Reqs :
        /\ req[p].op = "release" /\ Done(p) /\ req[p].out = "ok" /\ req[p].agentId # NOID
        /\ req[q].op = "assign" /\ Done(q) /\ req[q].out = "ok"
        /\ req[q].numberId = req[p].numberId
        /\ vn[req[q].numberId] = Assigned(req[q].tenantId, req[q].agentId)

\* The outcomes that reach the caller of a service method as a thrown Error.
Thrown == {"EmptyPool", "NotFound", "error"}

\* The request left its service call through a throw: the test endpoints answer HTTP
\* 500 with the message, the payment handler enters its catch block.
Raised(r) == \/ r.pc = "done" /\ r.out \in Thrown
             \/ r.op \in {"callback", "callbackDist"} /\ r.stages # <<>>
                  /\ r.stages[Len(r.stages)] \in {"pool:EmptyPool", "pool:error"}

\* C14: the claim never raises when the pool has no available number: a claim whose
\* SELECT finds no row hands pool-empty to its caller as a value, not as a thrown error.
C14_EmptyPoolIsValue ==
    [][\A p \in Reqs :
         (req[p].pc \in {"a_select", "s_select"} /\ req'[p] # req[p]
            /\ SelectAvailable = {} /\ faults' = faults)
         => ~Raised(req'[p])]_vars

\* C15: when releaseNumber(x) commits and x is an assigned number, x is available with
\* null tenant, agent and assignment timestamp, and the agent that owned x no longer
\* carries x as its telephony number.
C15_ReleaseClearsAgent ==
    [][\A p \in Reqs :
         (req[p].pc = "r_commit" /\ req'[p].pc = "done" /\ req'[p].out = "ok"
            /\ vn[req[p].numberId].status = "assigned")
         => LET x == req[p].numberId IN
            /\ vn'[x] = Available
            /\ x \notin {agents'[vn[x].agent_id].verimor_did,
                          agents'[vn[x].agent_id].twilio_phone_number}]_vars

\* C16: releaseNumber on a number that is no row of the pool ends with the NotFound
\* outcome, and the step changes no pool row, no agent row and takes no row lock.
C16_NotFoundChangesNothing ==
    /\ [][\A p \in Reqs :
            (req[p].pc = "r_select" /\ req'[p] # req[p] /\ vn[req[p].arg].status = "absent")
            => /\ req'[p].pc = "done" /\ req'[p].out = "NotFound"
               /\ UNCHANGED <<vn, agents, vnLock, agLock>>]_vars
    /\ [][\A p \in Reqs :
            (req'[p] # req[p] /\ req'[p].out = "NotFound")
            => (vn[req[p].arg].status = "absent" /\ UNCHANGED <<vn, agents>>)]_vars

\* A release was turned away with NotFound while the pool holds other rows.
C16_Witness ==
    \E p \in Reqs : /\ req[p].op = "release" /\ Done(p) /\ req[p].out = "NotFound"
                    /\ vn[req[p].arg].status = "absent"
                    /\ \E d \in PoolNumbers : vn[d].status \in {"available", "assigned"}

\* C17: addToPool(n) inserts n as an available row without owner when n is no row of
\* the pool, and fails when n is a row already: the pool is unchanged, so the row of n
\* stays the only one and keeps its status and owner.
C17_AddToPoolUnique ==
    [][\A p \in Reqs :
         (req[p].op = "idle" /\ req'[p].op = "addToPool")
         => LET n == req'[p].arg IN
            IF vn[n].status = "absent"
            THEN /\ vn' = [vn EXCEPT ![n] = Available]
                 /\ req'[p].pc = "done" /\ req'[p].out = "ok"
            ELSE /\ vn' = vn
                 /\ req'[p].pc = "done" /\ req'[p].out = "error"]_vars

\* A number was added, and adding it a second time failed.
C17_Witness ==
    \E p, q \in Reqs : /\ p < q
                       /\ req[p].op = "addToPool" /\ req[p].out = "ok"
                       /\ req[q].op = "addToPool" /\ req[q].out = "error"
                       /\ req[q].arg = req[p].arg
                       /\ vn[req[p].arg] = Available

\* The numbers the provider sells.
ProviderNumbers == {Inventory[i] : i \in 1..Len(Inventory)}

\* C18: the pool is empty and the external provider returns a number P: provisioning
\* returns P with source kind purchased ('twilio'), and P and the identifier of the
\* purchase are on the tenant's agent.
C18_PurchasePersisted ==
    \A p \in Reqs :
        (Payment(p) /\ Done(p) /\ Has(req[p].stages, {"pool:EmptyPool"})
           /\ Has(req[p].stages, {"provider:ok"}))
        => /\ req[p].out = "ok"
           /\ req[p].phoneNumber \in ProviderNumbers
           /\ req[p].assignmentType = "twilio"
           /\ agents[req[p].agentId].twilio_phone_number = req[p].phoneNumber
           /\ agents[req[p].agentId].twilio_sid = Sid(req[p].phoneNumber)

\* C19: the pool is empty and the credentials of the external provider are absent: the
\* external stage counts as failed, and the provisioning result carries source kind
\* placeholder ('mock'), not purchased ('twilio').
C19_NoCredentialsPlaceholder ==
    \A p \in Reqs :
        (Payment(p) /\ Done(p) /\ req[p].out = "ok" /\ ~env.client
           /\ Has(req[p].stages, {"pool:EmptyPool"}))
        => /\ req[p].assignmentType = "mock"
           /\ ~Has(req[p].stages, {"provider:ok", "provider:mock"})

\* The place of a stage in the chain pool -> external provider -> placeholder.
Rank(stage) == CASE stage \in PoolStages     -> 1
                 [] stage \in ProviderStages -> 2
                 [] stage = "persist:failed" -> 3
                 [] stage = "placeholder"    -> 4

\* C20: within one provisioning invocation control only moves forward along the chain:
\* the stages a delivery went through are in strictly ascending order, so the pool and
\* the external provider are each tried at most once and a failed stage is not retried.
C20_EachSourceOnce ==
    \A p \in Reqs :
        LET st == req[p].stages IN
        \A i, j \in 1..Len(st) : i < j => Rank(st[i]) < Rank(st[j])

\* A delivery went down the whole chain: the pool was empty, the provider failed, the
\* placeholder was recorded.
C20_Witness ==
    \E p \in Reqs : /\ Done(p) /\ req[p].out = "ok"
                    /\ req[p].stages = <<"pool:EmptyPool", "provider:failed", "placeholder">>

\* C21: a payment webhook whose success flag is not set is acknowledged and discarded:
\* the step that answers it changes no tenant, agent or pool row and takes no lock, the
\* delivery is over with that answer, and it has created no tenant, no agent and no
\* number assignment.
C21_FailedPaymentDiscarded ==
    /\ [][\A p \in Reqs :
            (req'[p].out = "failed" /\ req[p].out # "failed")
            => UNCHANGED <<vn, vnLock, tenants, agents, agLock>>]_vars
    /\ [](\A p \in Reqs :
            req[p].out = "failed"
            => /\ Done(p)
               /\ req[p].tenantId = NOID /\ req[p].agentId = NOID
               /\ req[p].numberId = NULL /\ req[p].phoneNumber = NULL
               /\ req[p].stages = <<>>)

\* A failed payment was acknowledged after a successful one had created its tenant, and
\* that tenant is the only one.
C21_Witness ==
    \E p, q \in Reqs :
        /\ p < q
        /\ Payment(p) /\ Done(p) /\ req[p].out = "ok"
        /\ req[q].op \in {"callback", "callbackDist"} /\ req[q].out = "failed"
        /\ Cardinality({t \in TenantIds : tenants[t].exists}) = 1

\* A signup or a payment-success delivery that completed successfully.
Onboarded(p) == /\ req[p].op \in {"signup", "callback", "callbackDist"}
                /\ Done(p) /\ req[p].out = "ok"

\* C22: after every successfully completed signup or payment-success event the response
\* carries a telephony number and the tenant's agent carries that number, also when the
\* pool was empty.
C22_AlwaysANumber ==
    \A p \in Reqs :
        Onboarded(p)
        => /\ req[p].phoneNumber # NULL
           /\ req[p].phoneNumber \in NumbersOf(req[p].agentId)

C24_AvailableCountExact ==
    /\ [][getAvailableCount' =
            getAvailableCount - Cardinality({p \in Reqs : ~Claimed(p) /\ Claimed(p)'})]_vars
    /\ [](getAvailableCount = PoolSizeM - Cardinality({p \in Reqs : Claimed(p)}))
    /\ []((getAvailableCount = 0 /\ PoolSizeM = 1)
            => Cardinality({p \in Reqs : Claimed(p)}) = 1)

\* Two signups ran at the same time against a pool of two: each got a number of its
\* own and the count is down by 2, to 0.
C24_Witness ==
    /\ PoolSizeM = 2
    /\ getAvailableCount = 0
    /\ \E p, q \in Reqs : /\ p # q
                          /\ req[p].op = "signup" /\ req[q].op = "signup"
                          /\ Claimed(p) /\ Claimed(q)
                          /\ req[p].numberId # req[q].numberId

\* C25: an inbound call webhook for the called number x is resolved to the agent that
\* owns x at that time: the lookup is keyed on the called number, and the answer carries
\* that agent (its name, system prompt and model) and its tenant (the slug).
C25_ResolvesCalledNumber ==
    [][\A p \in Reqs :
         (req[p].op = "idle" /\ req'[p].op = "n8n")
         => LET x == req'[p].arg IN
            (vn[x].status = "assigned")
               => /\ req'[p].out = "ok"
                  /\ req'[p].agentId = vn[x].agent_id
                  /\ req'[p].tenantId = vn[x].tenant_id]_vars

\* C26: in every committed state a telephony number is held by at most one agent: no
\* two agents of different tenants carry the same number, be it a pool number, a
\* purchased number or the placeholder.
C26_NumberHeldByOneAgent ==
    \A a, b \in TenantIds :
        (agents[a].exists /\ agents[b].exists /\ agents[a].tenant_id # agents[b].tenant_id)
        => NumbersOf(a) \cap NumbersOf(b) = {}

\* C27: without provider credentials buyPhoneNumber always succeeds and returns the same
\* synthetic number on every call: the call returns (it does not throw), the number is
\* +905550001122 whichever tenant asks and whatever earlier calls returned, and the
\* call leaves no trace that a later call could depend on.
C27_MockPurchaseDeterministic ==
    [][\A p \in Reqs :
         (req[p].pc = "d_buy" /\ req'[p] # req[p] /\ ~env.client)
         => /\ req'[p].pc = "d_save"
            /\ req'[p].phoneNumber = "+905550001122"
            /\ \A q \in Reqs : (Has(req[q].stages, {"provider:mock"}) /\ req[q].out # "error")
                                 => req[q].phoneNumber = req'[p].phoneNumber
            /\ env' = env]_vars

\* Two tenants asked for a number without credentials, one after the other, and got
\* the same one.
C27_Witness ==
    /\ ~env.client
    /\ \E p, q \in Reqs : /\ p # q /\ req[p].tenantId # req[q].tenantId
                          /\ Has(req[p].stages, {"provider:mock"})
                          /\ Has(req[q].stages, {"provider:mock"})
                          /\ req[p].phoneNumber = req[q].phoneNumber
                          /\ req[p].phoneNumber # NULL

\* C28: every tenant created by createTenantFromPayment or signupFromForm has exactly
\* one agent in every committed state, and no agent is without its tenant: tenant and
\* agent rows are committed together or not at all.
C28_OneAgentPerTenant ==
    /\ \A t \in TenantIds : tenants[t].exists => Cardinality(AgentsOf(t)) = 1
    /\ \A a \in TenantIds : agents[a].exists => tenants[agents[a].tenant_id].exists
    /\ \A t \in TenantIds :
          tenants[t].exists
          => \E q \in Reqs : /\ req[q].tenantId = t
                             /\ req[q].pc \notin {"t_insert", "t_commit", "s_select", "s_update", "s_commit"}

\* A signup and a paid order each committed their tenant with its agent.
C28_Witness ==
    \E p, q \in Reqs :
        /\ req[p].op = "signup" /\ Done(p) /\ req[p].out = "ok"
        /\ Payment(q) /\ req[q].tenantId # NOID /\ tenants[req[q].tenantId].exists
        /\ AgentsOf(req[p].tenantId) = {req[p].agentId}
        /\ AgentsOf(req[q].tenantId) = {req[q].agentId}

\* The request has a database transaction open: it holds a row lock or stands between
\* the BEGIN and the COMMIT or ROLLBACK of one of its transactions.
TransactionOpen(p) == \/ \E d \in PoolNumbers : vnLock[d] = p
                      \/ \E a \in TenantIds : agLock[a] = p
                      \/ req[p].pc \in {"t_commit", "a_update", "a_commit"}

\* C29: no call to the external provider is issued while a database transaction of the
\* same provisioning attempt is open: when the purchase call starts, the tenant
\* transaction has committed and the pool transaction has committed or rolled back,
\* and the attempt holds no row lock.
C29_NoProviderCallInTransaction ==
    \A p \in Reqs : req[p].pc = "d_buy" => ~TransactionOpen(p)

\* A delivery claimed a pool row, a statement of the transaction failed, and the
\* delivery stands before its provider call with the row free again.
C29_Witness ==
    \E p \in Reqs : /\ req[p].pc = "d_buy"
                    /\ req[p].stages = <<"pool:error">>
                    /\ \E d \in PoolNumbers : vn[d] = Available /\ vnLock[d] = 0

\* C30: a claim never waits for a row that another in-flight claim has locked: the
\* SELECT of a claim can run in every state, whatever rows other transactions hold, and
\* it returns one of the unlocked available rows if there is one and the empty pool
\* otherwise.
C30_ClaimDoesNotWait ==
    /\ [](\A p \in Reqs : /\ req[p].pc = "a_select" => ENABLED AssignSelect(p)
                          /\ req[p].pc = "s_select" => ENABLED SignupSelect(p))
    /\ [][\A p \in Reqs :
            (req[p].pc \in {"a_select", "s_select"} /\ req'[p] # req[p] /\ faults' = faults)
            => IF SelectAvailable = {}
               THEN /\ req'[p].numberId = NULL
                    /\ req'[p].pc = "s_commit" \/ req'[p].out = "EmptyPool"
               ELSE /\ req'[p].numberId \in SelectAvailable
                    /\ req'[p].pc \in {"a_update", "s_update"}]_vars

\* While one claim holds the only available row in its open transaction, another claim
\* has completed its selection with the empty pool.
C30_Witness ==
    \E p, q \in Reqs : /\ p # q
                       /\ Claiming(q) /\ vn[req[q].numberId].status = "available"
                       /\ ObservedEmpty(p)
                       /\ SelectAvailable = {}

\* The state of a payment delivery in the chain received -> validated -> tenant-created
\* -> provisioned -> acknowledged.  Receiving and validating are one synchronous piece of
\* the handler; the provisioning result and the answer that carries it are another.
Phase(r) == CASE r.op = "idle"                                  -> 0
              [] r.pc \in {"t_insert", "t_commit"}                -> 2
              [] r.pc \in {"a_select", "a_update", "a_commit",
                           "c_mock", "d_buy", "d_save", "d_mock"} -> 3
              [] r.pc = "done" /\ r.out = "ok"                    -> 5
              [] OTHER                                           -> 9

\* C31: a payment-success delivery goes through received, validated, tenant-created,
\* provisioned and acknowledged in that order and skips none: every step keeps its state
\* or moves it to the next one (or ends the delivery with an error answer); while the
\* tenant is being created no provisioning stage has run; provisioning runs only with
\* the tenant and its agent committed; and the acknowledging answer carries the result
\* that provisioning produced.
C31_EventStatesInOrder ==
    /\ [][\A p \in Reqs :
            (req'[p] # req[p] /\ req'[p].out # "failed")
            => \/ <<Phase(req[p]), Phase(req'[p])>> \in {<<0, 2>>, <<2, 2>>, <<2, 3>>, <<3, 3>>, <<3, 5>>}
               \/ Phase(req[p]) \in {2, 3} /\ req'[p].pc = "done" /\ req'[p].out = "error"]_vars
    /\ [](\A p \in Reqs :
            /\ Phase(req[p]) = 2 => req[p].stages = <<>> /\ req[p].phoneNumber = NULL
            /\ Phase(req[p]) \in {3, 5} => /\ tenants[req[p].tenantId].exists
                                            /\ AgentsOf(req[p].tenantId) = {req[p].agentId}
            /\ Phase(req[p]) = 5 => /\ req[p].stages # <<>>
                                    /\ req[p].phoneNumber # NULL
                                    /\ req[p].assignmentType \in {"verimor", "twilio", "mock"})

\* A delivery was acknowledged with the pool number that its provisioning assigned to
\* the tenant it created, while another delivery is still creating its tenant.
C31_Witness ==
    \E p, q \in Reqs :
        /\ Payment(p) /\ Phase(req[p]) = 5 /\ req[p].assignmentType = "verimor"
        /\ vn[req[p].phoneNumber] = Assigned(req[p].tenantId, req[p].agentId)
        /\ Payment(q) /\ req[q].pc = "t_commit" /\ ~tenants[req[q].tenantId].exists

\* C32: a release never undoes an assignment that committed after the release read the
\* row: when the commit of a releaseNumber(x) finds x committed as assigned to an agent,
\* the SELECT of that release saw x assigned to that agent; otherwise x stays assigned
\* and the agent keeps x as its number.
C32_ReleaseKeepsLaterAssignment ==
    [][\A p \in Reqs :
         (req[p].op = "release" /\ req[p].pc = "r_commit" /\ req'[p].pc = "done" /\ req'[p].out = "ok")
         => LET x == req[p].numberId IN
            vn[x].status = "assigned"
               => \/ req[p].agentId = vn[x].agent_id
                  \/ /\ vn'[x] = vn[x]
                     /\ agents'[vn[x].agent_id].verimor_did = agents[vn[x].agent_id].verimor_did]_vars

\* C33: in every committed state, a pool number that is assigned with agent reference a
\* is the number agent a carries (agents.verimor_did), also after repeated assigns for
\* the same agent.
C33_AssignedRowMatchesAgent ==
    \A d \in PoolNumbers :
        (vn[d].status = "assigned" /\ vn[d].agent_id # NOID)
        => agents[vn[d].agent_id].verimor_did = d

\* The pool rows that are assigned with agent reference a.
RowsOfAgent(a) == {d \in PoolNumbers : vn[d].status = "assigned" /\ vn[d].agent_id = a}

\* C34: an agent never owns more than one assigned pool number at a time: at most one
\* pool row with status assigned references a given agent.
C34_OneNumberPerAgent ==
    \A a \in TenantIds : Cardinality(RowsOfAgent(a)) <= 1

\* C35: a pool number with status blocked is never selected by a claim and never changes
\* status through assignNumberToTenant, signupFromForm or releaseNumber: once blocked it
\* stays blocked under every core operation.
C35_BlockedStaysBlocked ==
    /\ [](\A p \in Reqs : Claiming(p) => vn[req[p].numberId].status # "blocked")
    /\ [][\A d \in PoolNumbers : vn[d].status = "blocked" => vn'[d].status = "blocked"]_vars

\* C36: the placeholder is recorded only when the purchase itself failed: a delivery for
\* which buyPhoneNumber returned a purchased number ends with that number and source
\* kind purchased ('twilio'), also when persisting it on the agent failed; the purchased
\* number is not dropped in favour of the placeholder.
C36_PurchasedNumberKept ==
    \A p \in Reqs :
        (Payment(p) /\ Done(p) /\ req[p].out = "ok" /\ Has(req[p].stages, {"provider:ok"}))
        => /\ req[p].phoneNumber \in ProviderNumbers
           /\ req[p].assignmentType = "twilio"
           /\ ~Has(req[p].stages, {"placeholder"})
           /\ agents[req[p].agentId].twilio_phone_number # PLACEHOLDER

Count(tx, event) == Cardinality({i \in 1..Len(tx) : tx[i] = event})

\* The request stands inside assignNumberToTenant or releaseNumber, after the SELECT.
InCall(p) == req[p].pc \in {"a_update", "a_commit", "r_update", "r_agent", "r_commit"}

\* The call of assignNumberToTenant or releaseNumber that the request made is over:
\* it returned or threw.
CallOver(p) == \/ req[p].op \in {"assign", "release"} /\ Done(p)
               \/ req[p].op \in {"callback", "callbackDist"} /\ Has(req[p].stages, PoolStages)

\* The call returned its result instead of throwing.
CallSucceeded(p) == \/ req[p].op \in {"assign", "release"} /\ req[p].out = "ok"
                    \/ Has(req[p].stages, {"pool:ok"})

\* C39: every path of assignNumberToTenant and releaseNumber (success, pool empty,
\* number not found, statement failure) ends with the transaction closed by COMMIT or
\* ROLLBACK and the client released exactly once, after that; no path returns with a
\* row lock held; and while the call runs the client is checked out once, with one
\* transaction open.
C39_TransactionClosedClientReleased ==
    \A p \in Reqs :
        LET tx == req[p].tx IN
        /\ Count(tx, "connect") <= 1 /\ Count(tx, "BEGIN") <= 1 /\ Count(tx, "release") <= 1
        /\ InCall(p) => tx = <<"connect", "BEGIN">>
        /\ CallOver(p) =>
              /\ Len(tx) >= 4
              /\ tx[1] = "connect" /\ tx[2] = "BEGIN"
              /\ tx[Len(tx) - 1] \in {"COMMIT", "ROLLBACK"}
              /\ tx[Len(tx)] = "release"
              /\ Count(tx, "release") = 1
              /\ Count(tx, "COMMIT") = (IF CallSucceeded(p) THEN 1 ELSE 0)
        /\ (~InCall(p) /\ req[p].op # "signup")
              => /\ \A d \in PoolNumbers : vnLock[d] # p
                 /\ \A a \in TenantIds : agLock[a] # p

\* A release threw after a statement of its transaction had failed, and a claim threw
\* on the empty pool: both calls are over, their clients released, and no row is locked.
C39_Witness ==
    \E p, q \in Reqs :
        /\ req[p].op = "release" /\ Done(p) /\ req[p].out = "error"
        /\ req[p].tx = <<"connect", "BEGIN", "ROLLBACK", "release">>
        /\ req[q].op = "assign" /\ Done(q) /\ req[q].out = "EmptyPool"
        /\ req[q].tx = <<"connect", "BEGIN", "ROLLBACK", "ROLLBACK", "release">>
        /\ \A d \in PoolNumbers : vnLock[d] = 0

====
